---- MODULE Spec2Model ----
(***************************************************************************)
(* The plugin lifecycle and command-dispatch engine of the assistant:      *)
(* BasePlugin and PluginManager of plugins/base_plugin.py, driven by the   *)
(* unit classes of tests/test_plugins.py and plugins/example_plugin.py.    *)
(*                                                                         *)
(* Every PluginManager method is a coroutine.  The code between two        *)
(* suspensions runs atomically on the event loop, so each action below is  *)
(* one such stretch: from the call (or from the resumption after a unit's  *)
(* coroutine that had suspended) up to the next suspension or to the       *)
(* return of the manager method.                                           *)
(*                                                                         *)
(* Spec drives one PluginManager holding the units of the tests; LiveSpec  *)
(* adds that the units' coroutines terminate, HostSpec the queries and     *)
(* the cancellation of a dispatch in flight.                               *)
(* UnitSpec drives one unit's register_command and validate_command        *)
(* directly, ProcSpec an example unit's process_command and handle_error,  *)
(* and BuiltinSpec a PluginManager holding the three example units.        *)
(***************************************************************************)
EXTENDS Integers, Sequences, FiniteSets, Bags, TLC

\* ------------------------------------------------------------------ bounds

\* Manager calls suspended in an await at once.
MaxInFlight == 1

\* Patterns the Host registers on a unit by direct register_command calls.
MaxCommands == 2

\* The largest operand the Host writes into a calculator command.
MaxOperand == 5

\* ----------------------------------------------------------------- strings

\* A command or a pattern is a sequence of one-character strings.
S_test == <<"t", "e", "s", "t">>

S_TEST == <<"T", "E", "S", "T">>

S_tell_me_a_joke == <<"t", "e", "l", "l", " ", "m", "e", " ", "a", " ", "j", "o", "k", "e">>

S_make_me_laugh == <<"m", "a", "k", "e", " ", "m", "e", " ", "l", "a", "u", "g", "h">>

S_tell_joke_pattern == <<"t", "e", "l", "l", " ", "(", "m", "e", " ", ")", "?", "(", "a", " ", ")", "?", "j", "o", "k", "e">>

S_hello_re == <<"h", "e", "l", "l", "o", ".", "*">>

S_bye_re == <<"b", "y", "e", ".", "*">>

S_hello_world == <<"h", "e", "l", "l", "o", " ", "w", "o", "r", "l", "d">>

S_bye_now == <<"b", "y", "e", " ", "n", "o", "w">>

S_invalid_command == <<"i", "n", "v", "a", "l", "i", "d", " ", "c", "o", "m", "m", "a", "n", "d">>

S_SAY_HELLO_RE == <<"S", "a", "y", " ", "H", "E", "L", "L", "O", ".", "*">>

S_time_pattern ==
    <<"w", "h", "a", "t", "(", "'", "s", "|", " ", "i", "s", ")", " ", "t", "h", "e",
      " ", "t", "i", "m", "e">>

S_date_pattern ==
    <<"w", "h", "a", "t", "(", "'", "s", "|", " ", "i", "s", ")", " ", "t", "o", "d",
      "a", "y", "(", "'", "s", "|", " ", "i", "s", ")", " ", "d", "a", "t", "e">>

S_calculate == <<"c", "a", "l", "c", "u", "l", "a", "t", "e">>

S_calc_pattern ==
    <<"w", "h", "a", "t", "(", "'", "s", "|", " ", "i", "s", ")", " ", "\\", "d", "+",
      "(", " ", ")", "?", "[", "+", "\\", "-", "*", "/", "]", "(", " ", ")", "?", "\\",
      "d", "+">>

S_whats_the_time == <<"w", "h", "a", "t", "'", "s", " ", "t", "h", "e", " ", "t", "i", "m", "e">>

S_whats_todays_date ==
    <<"w", "h", "a", "t", "'", "s", " ", "t", "o", "d", "a", "y", "'", "s", " ", "d",
      "a", "t", "e">>

S_calculate_10_plus_5 ==
    <<"c", "a", "l", "c", "u", "l", "a", "t", "e", " ", "1", "0", " ", "+", " ", "5">>

S_whats_15_by_3 == <<"w", "h", "a", "t", "'", "s", " ", "1", "5", " ", "/", " ", "3">>

S_whats_ == <<"w", "h", "a", "t", "'", "s", " ">>

S_calculate_ == <<"c", "a", "l", "c", "u", "l", "a", "t", "e", " ">>

S_The_result_is_ == <<"T", "h", "e", " ", "r", "e", "s", "u", "l", "t", " ", "i", "s", " ">>

S_Cannot_divide_by_zero ==
    <<"C", "a", "n", "n", "o", "t", " ", "d", "i", "v", "i", "d", "e", " ", "b", "y",
      " ", "z", "e", "r", "o">>

S_divide_by_zero == <<"d", "i", "v", "i", "d", "e", " ", "b", "y", " ", "z", "e", "r", "o">>

S_couldnt_understand ==
    <<"I", " ", "c", "o", "u", "l", "d", "n", "'", "t", " ", "u", "n", "d", "e", "r",
      "s", "t", "a", "n", "d", " ", "t", "h", "e", " ", "c", "a", "l", "c", "u", "l",
      "a", "t", "i", "o", "n">>

S_time == <<"t", "i", "m", "e">>

S_date == <<"d", "a", "t", "e">>

\* The letters str.lower() changes, and what it changes them to.
UpperCase ==
    <<"A", "B", "C", "D", "E", "F", "G", "H", "I", "J", "K", "L", "M",
      "N", "O", "P", "Q", "R", "S", "T", "U", "V", "W", "X", "Y", "Z">>

LowerCase ==
    <<"a", "b", "c", "d", "e", "f", "g", "h", "i", "j", "k", "l", "m",
      "n", "o", "p", "q", "r", "s", "t", "u", "v", "w", "x", "y", "z">>

\* str.lower() on one character.
LowerChar(c) ==
    IF \E i \in DOMAIN UpperCase : UpperCase[i] = c
    THEN LowerCase[CHOOSE i \in DOMAIN UpperCase : UpperCase[i] = c]
    ELSE c

lower(s) == [i \in 1..Len(s) |-> LowerChar(s[i])]

\* A faulty variant of str_in that only looks at the start of c
\* (str.startswith).
str_in_AtStart(p, c) ==
    /\ Len(p) <= Len(c)
    /\ \A k \in 1..Len(p) : c[k] = p[k]

\* Python's `p in c` on strings: p occurs as a contiguous run of c.
str_in(p, c) ==
    \E i \in 0..Len(c) :
        /\ i + Len(p) <= Len(c)
        /\ \A k \in 1..Len(p) : c[i + k] = p[k]

\* The commands the Host dispatches.
Commands == {S_test, S_tell_me_a_joke}

\* ----------------------------------------------------------- unit classes

\* ConflictPlugin1 and ConflictPlugin2 are the units of test_plugin_conflicts;
\* JokePlugin is the example unit; InvalidPlugin is the plain class of
\* test_plugin_loading; FaultyPlugin stands for a subclass that overrides the
\* BasePlugin methods with code that awaits I/O and may fail.
Classes ==
    {"ConflictPlugin1", "ConflictPlugin2", "JokePlugin", "FaultyPlugin", "InvalidPlugin"}

\* The sets of unit classes a Host has at hand: the two units of
\* test_plugin_conflicts, or one of them beside a unit that may fail or
\* beside the example unit.
Hosts ==
    {{"ConflictPlugin1", "ConflictPlugin2"}, {"ConflictPlugin1", "FaultyPlugin"},
     {"ConflictPlugin1", "JokePlugin"}}

\* Whether the unit's coroutines suspend.  The BasePlugin methods and the
\* methods of the test and example units contain no await that yields to the
\* event loop, so a manager call that awaits them runs on without a break;
\* only a unit that awaits I/O lets other calls run in between.
Awaits(cls) == cls = "FaultyPlugin"

\* plugin_class(self.assistant) raises: InvalidPlugin() takes no argument.
CtorRaises(cls) == cls = "InvalidPlugin"

\* What `await plugin.initialize()` can do: return True, return False, raise.
InitOutcomes(cls) ==
    IF cls = "FaultyPlugin" THEN {"True", "False", "raise"} ELSE {"True"}

\* Whether initialize() sets the unit's own is_active flag.
InitSetsActive(cls) == cls \in {"JokePlugin", "TimePlugin", "CalculatorPlugin"}

\* The patterns initialize() registers through register_command.
Patterns(cls) ==
    CASE cls = "ConflictPlugin1" -> {S_test}
      [] cls = "ConflictPlugin2" -> {S_test}
      [] cls = "JokePlugin" -> {S_tell_joke_pattern, S_make_me_laugh}
      [] cls = "FaultyPlugin" -> {S_TEST}
      [] cls = "TimePlugin" -> {S_time_pattern, S_date_pattern}
      [] cls = "CalculatorPlugin" -> {S_calculate, S_calc_pattern}
      [] cls = "ValidationPlugin" -> {S_hello_re, S_bye_re}
      [] OTHER -> {}

\* BasePlugin.validate_command: any registered pattern, lower-cased, occurs
\* in the lower-cased command.
validate_command(cls, command) ==
    \E pattern \in Patterns(cls) : str_in(lower(pattern), lower(command))

\* What `await plugin.validate_command(command)` can do.  The base method
\* swallows its own exceptions; an overriding one may raise.
ValidateOutcomes(cls, command) ==
    {IF validate_command(cls, command) THEN "True" ELSE "False"}
        \cup (IF cls = "FaultyPlugin" THEN {"raise"} ELSE {})

\* str(e) of the exception a faulty unit raises.
FaultText == "unit fault"

Response(success, message) == [success |-> success, message |-> message]

\* self.jokes of JokePlugin.
Jokes ==
    {"Why don't programmers like nature? It has too many bugs!",
     "What do you call a bear with no teeth? A gummy bear!",
     "Why don't scientists trust atoms? Because they make up everything!",
     "What do you call fake spaghetti? An impasta!",
     "Why did the scarecrow win an award? He was outstanding in his field!"}

\* The Responses `await plugin.process_command(command, context)` can return.
ProcessResponses(cls) ==
    CASE cls = "ConflictPlugin1" -> {Response(TRUE, "Response 1")}
      [] cls = "ConflictPlugin2" -> {Response(TRUE, "Response 2")}
      [] cls = "JokePlugin" -> {Response(TRUE, joke) : joke \in Jokes}
      [] cls = "FaultyPlugin" -> {Response(TRUE, "Faulty response")}
      [] OTHER -> {}

\* Whether the unit's process_command can let an exception escape.
ProcessMayRaise(cls) == cls = "FaultyPlugin"

\* What `await plugin.shutdown()` can do.  BasePlugin.shutdown sets
\* is_active = False and returns; an overriding one may raise, before or
\* after it cleared the flag.
ShutdownOutcomes(cls) ==
    IF cls = "FaultyPlugin" THEN {"ok", "raise", "clear_then_raise"} ELSE {"ok"}

\* ------------------------------------------------------ CalculatorPlugin

\* The characters \d matches, in order of value.
Digits == <<"0", "1", "2", "3", "4", "5", "6", "7", "8", "9">>

IsDigit(c) == \E i \in DOMAIN Digits : Digits[i] = c

DigitVal(c) == (CHOOSE i \in DOMAIN Digits : Digits[i] = c) - 1

\* A faulty variant of IsSpace for a pattern written without \s*: nothing
\* counts as a blank.
IsSpace_Never(c) == FALSE

\* The characters \s matches.
IsSpace(c) == c \in {" ", "\t", "\n", "\r", "\f"}

\* The characters [+\-*/] matches.
Operators == {"+", "-", "*", "/"}

\* The first position from i on that holds no digit (no space).
RECURSIVE DigitsEnd(_, _)
DigitsEnd(s, i) == IF i <= Len(s) /\ IsDigit(s[i]) THEN DigitsEnd(s, i + 1) ELSE i

RECURSIVE SpacesEnd(_, _)
SpacesEnd(s, i) == IF i <= Len(s) /\ IsSpace(s[i]) THEN SpacesEnd(s, i + 1) ELSE i

NoMatchObject == [found |-> FALSE]

\* (\d+)\s*([+\-*/])\s*(\d+) matched from position i.  Each repetition is
\* followed by a character outside its own class, so giving back characters
\* never helps: the greedy match is the only one.
MatchAt(s, i) ==
    LET j == DigitsEnd(s, i)
        k == SpacesEnd(s, j)
        l == SpacesEnd(s, k + 1)
        m == DigitsEnd(s, l)
    IN  IF j > i /\ k <= Len(s) /\ s[k] \in Operators /\ m > l
        THEN [found |-> TRUE, group1 |-> SubSeq(s, i, j - 1), group2 |-> s[k],
              group3 |-> SubSeq(s, l, m - 1)]
        ELSE NoMatchObject

\* re.search: the match at the leftmost position that has one.
re_search(s) ==
    LET starts == {i \in 1..Len(s) : MatchAt(s, i).found} IN
    IF starts = {} THEN NoMatchObject
    ELSE MatchAt(s, CHOOSE i \in starts : \A j \in starts : i <= j)

\* float(digits): the number a run of decimal digits writes.  A float is
\* held as the exact fraction num/den in lowest terms, den > 0.
RECURSIVE float(_)
float(digits) ==
    IF digits = <<>> THEN [num |-> 0, den |-> 1]
    ELSE [num |-> 10 * float(SubSeq(digits, 1, Len(digits) - 1)).num
                     + DigitVal(digits[Len(digits)]),
          den |-> 1]

RECURSIVE GCD(_, _)
GCD(a, b) == IF b = 0 THEN a ELSE GCD(b, a % b)

\* num1 / num2 for num2 # 0.
TrueDiv(num1, num2) ==
    LET n == num1.num * num2.den
        d == num1.den * num2.num
        g == GCD(n, d)
    IN  [num |-> n \div g, den |-> d \div g]

\* str(n) for a natural number n.
RECURSIVE IntStr(_)
IntStr(n) ==
    IF n < 10 THEN <<Digits[n + 1]>> ELSE IntStr(n \div 10) \o <<Digits[(n % 10) + 1]>>

\* The digits after the point of rem/den, at most n of them.
RECURSIVE FracDigits(_, _, _)
FracDigits(rem, den, n) ==
    IF rem = 0 \/ n = 0 THEN <<>>
    ELSE <<Digits[((rem * 10) \div den) + 1]>> \o FracDigits((rem * 10) % den, den, n - 1)

\* The significant digits of a float's repr.
ReprDigits == 17

\* str(result) of a float whose decimal expansion ends within ReprDigits
\* digits: sign, integer part, point, and the fraction digits ("0" when
\* there are none).
FloatStr(x) ==
    LET a == IF x.num < 0 THEN 0 - x.num ELSE x.num
        rem == a % x.den
    IN  (IF x.num < 0 THEN <<"-">> ELSE <<>>)
            \o IntStr(a \div x.den) \o <<".">>
            \o (IF rem = 0 THEN <<"0">> ELSE FracDigits(rem, x.den, ReprDigits))

\* CalculatorPlugin.process_command inside its try block.
Calculate(command) ==
    LET match == re_search(command) IN
    IF ~match.found
    THEN [success |-> FALSE, message |-> S_couldnt_understand, type |-> "error"]
    ELSE LET num1 == float(match.group1)
             operator == match.group2
             num2 == float(match.group3)
         IN  IF operator = "/" /\ num2.num = 0
             THEN [success |-> FALSE, message |-> S_Cannot_divide_by_zero, type |-> "error"]
             ELSE LET result ==
                         CASE operator = "+" -> [num |-> num1.num + num2.num, den |-> 1]
                           [] operator = "-" -> [num |-> num1.num - num2.num, den |-> 1]
                           [] operator = "*" -> [num |-> num1.num * num2.num, den |-> 1]
                           [] operator = "/" -> TrueDiv(num1, num2)
                  IN  [success |-> TRUE, message |-> S_The_result_is_ \o FloatStr(result),
                       type |-> "calculation", result |-> result]

\* ------------------------------------------------------- the example units

\* The example units of example_plugin.py.
BuiltinClasses == {"JokePlugin", "TimePlugin", "CalculatorPlugin"}

\* A command that is not a str: None.
None == <<"None">>

\* str(e) of the TypeError re.search raises for a command that is not a str.
NotAStringText == "expected string or bytes-like object, got 'NoneType'"

\* A faulty variant of handle_error that leaves the error's text out of the
\* message.
handle_error_NoText(text) ==
    [success |-> FALSE, message |-> "Plugin error", error |-> text]

\* BasePlugin.handle_error(error), text being str(error): it logs and returns
\* the error Response; it assigns nothing.
handle_error(text) ==
    [success |-> FALSE, message |-> "Plugin error: " \o text, error |-> text]

\* datetime.now(), as TimePlugin formats it.
Now ==
    {[time |-> "09:05 AM", date |-> "November 04, 2026"],
     [time |-> "11:30 PM", date |-> "December 31, 2026"]}

\* TimePlugin.process_command inside its try block, at the moment now.
\* re.IGNORECASE compares the letters without regard to case.
TellTime(command, now) ==
    IF str_in(S_time, lower(command))
    THEN [success |-> TRUE, message |-> "The current time is " \o now.time, type |-> "time"]
    ELSE IF str_in(S_date, lower(command))
    THEN [success |-> TRUE, message |-> "Today's date is " \o now.date, type |-> "date"]
    ELSE [success |-> FALSE, message |-> "I don't understand that time-related command",
          type |-> "error"]

\* What `await plugin.process_command(command)` of an example unit can
\* return, with the text of the exception its except clause caught ("" when
\* none was raised).  JokePlugin never reads the command; TimePlugin and
\* CalculatorPlugin hand it to re.search, which raises for None.
BuiltinProcess(cls, command) ==
    CASE cls = "JokePlugin" ->
            {[val |-> r, raised |-> ""] : r \in ProcessResponses(cls)}
      [] cls \in {"TimePlugin", "CalculatorPlugin"} /\ command = None ->
            {[val |-> handle_error(NotAStringText), raised |-> NotAStringText]}
      [] cls = "TimePlugin" ->
            {[val |-> TellTime(command, now), raised |-> ""] : now \in Now}
      [] cls = "CalculatorPlugin" ->
            {[val |-> Calculate(command), raised |-> ""]}
      [] OTHER -> {}

\* The Responses `await plugin.process_command(command, context)` can return
\* to the manager: those of TimePlugin and CalculatorPlugin depend on the
\* command.
ProcessResponsesTo(cls, command) ==
    IF cls \in {"TimePlugin", "CalculatorPlugin"}
    THEN {outcome.val : outcome \in BuiltinProcess(cls, command)}
    ELSE ProcessResponses(cls)

\* ------------------------------------------------------------------- state

VARIABLES
    instances,       \* the unit objects some reference still reaches, by object
                     \* id: the object's is_active flag
    plugins,         \* self.plugins: insertion-ordered dict, a sequence of [name, plugin]
    active_plugins,  \* self.active_plugins: a set of names
    hashOrder,       \* the slot order str hashes give the names in a set
    ret,             \* what the manager call that returned in this step returned
    ld,              \* load_plugin in flight
    ul,              \* unload_plugin calls in flight
    dp,              \* process_command in flight
    sd,              \* shutdown in flight
    activation       \* history: the active names in the order they were activated

vars == <<instances, plugins, active_plugins, hashOrder, ret, ld, ul, dp, sd,
          activation>>

\* ------------------------------------------------------- dict and set model

\* A reference to a unit object: the class (so the name) and a number that
\* tells apart the live objects of one class.
NoObject == [name |-> "", k |-> 0]

\* The slot of a deleted entry: a dict keeps its entries in insertion order
\* and a deletion leaves a hole that an iterator in flight still steps over.
Hole == [name |-> "", plugin |-> NoObject]

IsEntry(e) == e.name # ""

keys(d) == {d[i].name : i \in DOMAIN d} \ {""}

\* d[name]
getitem(d, name) == d[CHOOSE i \in DOMAIN d : d[i].name = name].plugin

\* d[name] = plugin: in place for a key already present, appended otherwise.
setitem(d, name, plugin) ==
    IF name \in keys(d)
    THEN [i \in DOMAIN d |->
            IF d[i].name = name THEN [name |-> name, plugin |-> plugin] ELSE d[i]]
    ELSE Append(d, [name |-> name, plugin |-> plugin])

\* del d[name]: the entry's slot becomes a hole; holes at the end of the
\* entries are nothing an iterator could still step over.
delitem(d, name) ==
    LET holed == [i \in DOMAIN d |-> IF d[i].name = name THEN Hole ELSE d[i]]
        last == IF \E i \in DOMAIN holed : IsEntry(holed[i])
                THEN CHOOSE i \in DOMAIN holed :
                        IsEntry(holed[i]) /\ \A j \in DOMAIN holed : IsEntry(holed[j]) => j <= i
                ELSE 0
    IN  SubSeq(holed, 1, last)

\* The holes matter only to an iterator in flight; without one they are dropped.
compact(d) == SelectSeq(d, IsEntry)

\* len(d)
len(d) == Cardinality(keys(d))

\* The index of the first entry of d after index pos, 0 when there is none.
DictNext(d, pos) ==
    IF \E i \in DOMAIN d : i > pos /\ IsEntry(d[i])
    THEN CHOOSE i \in DOMAIN d :
            /\ i > pos /\ IsEntry(d[i])
            /\ \A j \in DOMAIN d : (j > pos /\ IsEntry(d[j])) => i <= j
    ELSE 0

\* A faulty variant of SetNext that goes by the units' own is_active flags
\* instead of by membership in s.
SetNext_ByFlag(s, pos) ==
    LET flagged == {n \in keys(plugins) : instances[getitem(plugins, n)].is_active} IN
    IF \E i \in DOMAIN hashOrder : i > pos /\ hashOrder[i] \in flagged
    THEN CHOOSE i \in DOMAIN hashOrder :
            /\ i > pos /\ hashOrder[i] \in flagged
            /\ \A j \in DOMAIN hashOrder : (j > pos /\ hashOrder[j] \in flagged) => i <= j
    ELSE 0

\* The slot of the first member of set s after slot pos, 0 when there is none.
SetNext(s, pos) ==
    IF \E i \in DOMAIN hashOrder : i > pos /\ hashOrder[i] \in s
    THEN CHOOSE i \in DOMAIN hashOrder :
            /\ i > pos /\ hashOrder[i] \in s
            /\ \A j \in DOMAIN hashOrder : (j > pos /\ hashOrder[j] \in s) => i <= j
    ELSE 0

\* All orders of a set of names: str hashes are salted per process.
HashOrders(names) ==
    {o \in [1..Cardinality(names) -> names] : \A n \in names : \E i \in DOMAIN o : o[i] = n}

\* The identities of the unit classes at hand: self.name is the class name.
Names == {hashOrder[i] : i \in DOMAIN hashOrder}

\* ------------------------------------------------------------ return values

\* No manager call returned in this step.
NoReturn == [op |-> "none", refs |-> {}]

\* A lifecycle call returned val; refs are the unit objects it handled.
Return(op, arg, val, refs) == [op |-> op, arg |-> arg, val |-> val, refs |-> refs]

\* A faulty variant of PluginError that drops the prefix.
PluginError_Bare(text) == Response(FALSE, text)

\* f"Plugin error: {str(e)}"
PluginError(text) == Response(FALSE, "Plugin error: " \o text)

\* A faulty variant of NoPluginAvailable that drops the command without a
\* message.
NoPluginAvailable_Silent == [success |-> FALSE]

\* A faulty variant of NoPluginAvailable that reports success.
NoPluginAvailable_Success == Response(TRUE, "No plugin available to handle this command")

\* The Response after the loop, when no unit took the command.
NoPluginAvailable == Response(FALSE, "No plugin available to handle this command")

\* str(KeyError(name))
KeyErrorText(name) == "'" \o name \o "'"

SetChangedSize == "Set changed size during iteration"

\* ------------------------------------------------------------- unit objects

\* BasePlugin.__init__: a fresh unit, is_active False.
NewInstance == [is_active |-> FALSE]

\* A faulty variant of FreshId that hands out the object already stored
\* under the class's name instead of constructing one.
FreshId_Reuses(insts, cls) ==
    IF \E p \in DOMAIN insts : p.name = cls
    THEN CHOOSE p \in DOMAIN insts : p.name = cls
    ELSE [name |-> cls, k |-> 1]

\* The reference to a newly constructed object of class cls.
FreshId(insts, cls) ==
    LET taken == {p.k : p \in {q \in DOMAIN insts : q.name = cls}} IN
    [name |-> cls,
     k |-> CHOOSE i \in 1..(Cardinality(taken) + 1) :
              i \notin taken /\ \A j \in 1..(i - 1) : j \in taken]

\* The identity a unit is stored under: plugin.name.
NameOf(p) == p.name

is_active(p) == instances[p].is_active

\* A faulty variant of SetActive that leaves the unit's flag as it is.
SetActive_Ignores(insts, p, b) == insts

SetActive(insts, p, b) == [insts EXCEPT ![p].is_active = b]

\* A faulty variant of EndShutdown that never clears the flag.
EndShutdown_KeepsFlag(insts, p, o) == insts

\* The unit's shutdown() ends with outcome o: BasePlugin.shutdown clears the flag.
EndShutdown(insts, p, o) ==
    IF o \in {"ok", "clear_then_raise"} THEN SetActive(insts, p, FALSE) ELSE insts

\* The instances self.plugins holds.
values(d) == {d[i].plugin : i \in {j \in DOMAIN d : IsEntry(d[j])}}

Range(seq) == {seq[i] : i \in DOMAIN seq}

\* The unit objects that a reference reaches: from self.plugins, from the
\* locals of the calls in flight, and from the call that just returned.
Roots(pl, l, u, d, s, r) ==
    values(pl) \cup {l.plugin} \cup {c.plugin : c \in BagToSet(u)}
        \cup (IF d.pc = "idle" THEN {} ELSE {d.plugin})
        \cup (IF s.pc = "idle" THEN {} ELSE {s.plugin})
        \cup r.refs

\* Objects no reference reaches are gone.
Collect(insts, roots) == [p \in DOMAIN insts \cap roots |-> insts[p]]

\* The history of activations without name.
Without(seq, plugin_name) == SelectSeq(seq, LAMBDA n : n # plugin_name)

IdleLoad == [pc |-> "idle", plugin |-> NoObject]

IdleDispatch == [pc |-> "idle"]

IdleShutdown == [pc |-> "idle"]

\* How many manager calls are suspended in an await.
InFlight ==
    (IF ld.pc = "idle" THEN 0 ELSE 1) + BagCardinality(ul)
        + (IF dp.pc = "idle" THEN 0 ELSE 1) + (IF sd.pc = "idle" THEN 0 ELSE 1)

Init ==
    /\ instances = [p \in {} |-> NewInstance]
    /\ plugins = <<>>
    /\ active_plugins = {}
    /\ hashOrder \in UNION {HashOrders(host) : host \in Hosts}
    /\ ret = NoReturn
    /\ ld = IdleLoad
    /\ ul = EmptyBag
    /\ dp = IdleDispatch
    /\ sd = IdleShutdown
    /\ activation = <<>>

\* ------------------------------------------------------------- load_plugin

\* A faulty variant of LoadStore that keeps the unit already stored under
\* the name.
LoadStore_KeepsOld(d, plugin_name, plugin, outcome) ==
    IF outcome = "True" /\ plugin_name \notin keys(d)
    THEN setitem(d, plugin_name, plugin)
    ELSE d

\* A faulty variant of LoadStore that stores the unit whatever initialize() did.
LoadStore_Unconditional(d, plugin_name, plugin, outcome) ==
    setitem(d, plugin_name, plugin)

\* self.plugins[plugin.name] = plugin when initialize() returned True.
LoadStore(d, plugin_name, plugin, outcome) ==
    IF outcome = "True" THEN setitem(d, plugin_name, plugin) ELSE d

\* What load_plugin returned: val, with the unit it constructed, how the
\* unit's construction and initialize() ended, the units the call dropped
\* from self.plugins, and the units whose shutdown() it invoked.
LoadReturn(cls, val, plugin, outcome, replaced) ==
    [op |-> "load_plugin", arg |-> cls, val |-> val, plugin |-> plugin,
     outcome |-> outcome, replaced |-> replaced, shutdowns |-> <<>>,
     refs |-> replaced \cup ({plugin} \ {NoObject})]

\* load_plugin from the return of initialize() to its own return.
LoadFinish(insts, plugin, outcome) ==
    /\ plugins' = LoadStore(plugins, NameOf(plugin), plugin, outcome)
    /\ ret' = LoadReturn(NameOf(plugin), outcome = "True", plugin, outcome,
                         values(plugins) \ values(plugins'))
    /\ ld' = IdleLoad
    /\ instances' =
         Collect(IF outcome = "True" /\ InitSetsActive(NameOf(plugin))
                 THEN SetActive(insts, plugin, TRUE)
                 ELSE insts,
                 Roots(plugins', ld', ul, dp, sd, ret'))

\* load_plugin from its call: the constructor runs (when it raises, the call
\* returns False), then `await plugin.initialize()`.
LoadBegin(cls) ==
    /\ ld.pc = "idle"
    /\ IF CtorRaises(cls)
       THEN /\ ret' = LoadReturn(cls, FALSE, NoObject, "constructor raise", {})
            /\ instances' = Collect(instances, Roots(plugins, ld, ul, dp, sd, ret'))
            /\ UNCHANGED <<plugins, ld>>
       ELSE LET plugin == FreshId(instances, cls)
                insts == instances @@ (plugin :> NewInstance)
            IN  IF Awaits(cls)
                THEN /\ InFlight < MaxInFlight
                     /\ ld' = [pc |-> "initialize", plugin |-> plugin]
                     /\ ret' = NoReturn
                     /\ instances' = Collect(insts, Roots(plugins, ld', ul, dp, sd, ret'))
                     /\ UNCHANGED plugins
                ELSE \E outcome \in InitOutcomes(cls) : LoadFinish(insts, plugin, outcome)
    /\ UNCHANGED <<active_plugins, hashOrder, ul, dp, sd, activation>>

\* load_plugin resumes when the unit's initialize() ends.
LoadEnd(outcome) ==
    /\ ld.pc = "initialize"
    /\ outcome \in InitOutcomes(NameOf(ld.plugin))
    /\ LoadFinish(instances, ld.plugin, outcome)
    /\ UNCHANGED <<active_plugins, hashOrder, ul, dp, sd, activation>>

\* ------------------------------------------- activate_plugin, deactivate_plugin

\* A faulty variant of activate_plugin that toggles: a name already in the
\* active set is taken out of it.
activate_plugin_Toggles(plugin_name) ==
    /\ ret' = Return("activate_plugin", plugin_name, plugin_name \in keys(plugins), {})
    /\ IF plugin_name \in keys(plugins)
       THEN /\ instances' =
                 Collect(SetActive(instances, getitem(plugins, plugin_name),
                                   plugin_name \notin active_plugins),
                         Roots(plugins, ld, ul, dp, sd, ret'))
            /\ active_plugins' = IF plugin_name \in active_plugins
                                 THEN active_plugins \ {plugin_name}
                                 ELSE active_plugins \cup {plugin_name}
            /\ activation' = IF plugin_name \in active_plugins
                             THEN Without(activation, plugin_name)
                             ELSE Append(activation, plugin_name)
       ELSE /\ instances' = Collect(instances, Roots(plugins, ld, ul, dp, sd, ret'))
            /\ UNCHANGED <<active_plugins, activation>>
    /\ UNCHANGED <<plugins, hashOrder, ld, ul, dp, sd>>

\* A faulty variant of activate_plugin without the `in self.plugins` test: an
\* unknown name is added to the active set all the same.
activate_plugin_Unchecked(plugin_name) ==
    /\ ret' = Return("activate_plugin", plugin_name, plugin_name \in keys(plugins), {})
    /\ instances' =
          Collect(IF plugin_name \in keys(plugins)
                  THEN SetActive(instances, getitem(plugins, plugin_name), TRUE)
                  ELSE instances,
                  Roots(plugins, ld, ul, dp, sd, ret'))
    /\ active_plugins' = active_plugins \cup {plugin_name}
    /\ activation' = IF plugin_name \in active_plugins
                     THEN activation
                     ELSE Append(activation, plugin_name)
    /\ UNCHANGED <<plugins, hashOrder, ld, ul, dp, sd>>

\* activate_plugin: no await, one atomic stretch.
activate_plugin(plugin_name) ==
    /\ ret' = Return("activate_plugin", plugin_name, plugin_name \in keys(plugins), {})
    /\ IF plugin_name \in keys(plugins)
       THEN /\ instances' =
                 Collect(SetActive(instances, getitem(plugins, plugin_name), TRUE),
                         Roots(plugins, ld, ul, dp, sd, ret'))
            /\ active_plugins' = active_plugins \cup {plugin_name}
            /\ activation' = IF plugin_name \in active_plugins
                             THEN activation
                             ELSE Append(activation, plugin_name)
       ELSE /\ instances' = Collect(instances, Roots(plugins, ld, ul, dp, sd, ret'))
            /\ UNCHANGED <<active_plugins, activation>>
    /\ UNCHANGED <<plugins, hashOrder, ld, ul, dp, sd>>

\* A faulty variant of deactivate_plugin whose set.remove tolerates a missing
\* name (set.discard): it returns True for every loaded name.
deactivate_plugin_Discards(plugin_name) ==
    /\ ret' = Return("deactivate_plugin", plugin_name, plugin_name \in keys(plugins), {})
    /\ IF plugin_name \in keys(plugins)
       THEN /\ instances' =
                 Collect(SetActive(instances, getitem(plugins, plugin_name), FALSE),
                         Roots(plugins, ld, ul, dp, sd, ret'))
            /\ active_plugins' = active_plugins \ {plugin_name}
            /\ activation' = Without(activation, plugin_name)
       ELSE /\ instances' = Collect(instances, Roots(plugins, ld, ul, dp, sd, ret'))
            /\ UNCHANGED <<active_plugins, activation>>
    /\ UNCHANGED <<plugins, hashOrder, ld, ul, dp, sd>>

\* deactivate_plugin: no await.  set.remove raises KeyError for a name that
\* is not in the set, after is_active was already cleared; the except clause
\* turns it into False.
deactivate_plugin(plugin_name) ==
    /\ ret' = Return("deactivate_plugin", plugin_name,
                     plugin_name \in keys(plugins) /\ plugin_name \in active_plugins, {})
    /\ IF plugin_name \in keys(plugins)
       THEN /\ instances' =
                 Collect(SetActive(instances, getitem(plugins, plugin_name), FALSE),
                         Roots(plugins, ld, ul, dp, sd, ret'))
            /\ active_plugins' = active_plugins \ {plugin_name}
            /\ activation' = Without(activation, plugin_name)
       ELSE /\ instances' = Collect(instances, Roots(plugins, ld, ul, dp, sd, ret'))
            /\ UNCHANGED <<active_plugins, activation>>
    /\ UNCHANGED <<plugins, hashOrder, ld, ul, dp, sd>>

\* ----------------------------------------------------------- unload_plugin

\* A faulty variant of UnloadRemove that leaves the name in the set.
UnloadRemove_Keeps(active, plugin_name) == active

\* `if plugin_name in self.active_plugins: self.active_plugins.remove(plugin_name)`
UnloadRemove(active, plugin_name) == active \ {plugin_name}

\* What unload_plugin returned: val, with the unit whose shutdown() it
\* invoked, how that ended, whether the name was still a key of self.plugins
\* then, and the units the call dropped from self.plugins.
UnloadReturn(plugin_name, val, plugin, outcome, present, removed) ==
    [op |-> "unload_plugin", arg |-> plugin_name, val |-> val, plugin |-> plugin,
     outcome |-> outcome, present |-> present,
     refs |-> removed \cup ({plugin} \ {NoObject})]

\* unload_plugin from the return of the unit's shutdown() to its own return;
\* u are the unload_plugin calls still suspended.
\* `del self.plugins[plugin_name]` raises KeyError when the entry went away
\* during the await; every exception ends in False.
UnloadFinish(insts, u, call, outcome) ==
    /\ IF outcome = "ok" /\ call.plugin_name \in keys(plugins)
       THEN /\ plugins' = IF sd.pc = "idle"
                          THEN compact(delitem(plugins, call.plugin_name))
                          ELSE delitem(plugins, call.plugin_name)
            /\ active_plugins' = UnloadRemove(active_plugins, call.plugin_name)
            /\ activation' = Without(activation, call.plugin_name)
       ELSE UNCHANGED <<plugins, active_plugins, activation>>
    /\ ret' = UnloadReturn(call.plugin_name,
                           outcome = "ok" /\ call.plugin_name \in keys(plugins),
                           call.plugin, outcome, call.plugin_name \in keys(plugins),
                           values(plugins) \ values(plugins'))
    /\ instances' = Collect(EndShutdown(insts, call.plugin, outcome),
                            Roots(plugins', ld, u, dp, sd, ret'))

\* unload_plugin from its call: False for an unknown name, else
\* `plugin = self.plugins[plugin_name]; await plugin.shutdown()`.
UnloadBegin(plugin_name) ==
    /\ IF plugin_name \in keys(plugins)
       THEN LET plugin == getitem(plugins, plugin_name)
                call == [plugin_name |-> plugin_name, plugin |-> plugin]
            IN  IF Awaits(NameOf(plugin))
                THEN /\ InFlight < MaxInFlight
                     /\ ul' = ul (+) SetToBag({call})
                     /\ ret' = NoReturn
                     /\ instances' = Collect(instances, Roots(plugins, ld, ul', dp, sd, ret'))
                     /\ UNCHANGED <<plugins, active_plugins, activation>>
                ELSE /\ ul' = ul
                     /\ \E outcome \in ShutdownOutcomes(NameOf(plugin)) :
                           UnloadFinish(instances, ul, call, outcome)
       ELSE /\ ret' = UnloadReturn(plugin_name, FALSE, NoObject, "not called", FALSE, {})
            /\ ul' = ul
            /\ instances' = Collect(instances, Roots(plugins, ld, ul, dp, sd, ret'))
            /\ UNCHANGED <<plugins, active_plugins, activation>>
    /\ UNCHANGED <<hashOrder, ld, dp, sd>>

\* unload_plugin resumes when the unit's shutdown() ends.
UnloadEnd(call, outcome) ==
    /\ BagIn(call, ul)
    /\ outcome \in ShutdownOutcomes(NameOf(call.plugin))
    /\ ul' = ul (-) SetToBag({call})
    /\ UnloadFinish(instances, ul', call, outcome)
    /\ UNCHANGED <<hashOrder, ld, dp, sd>>

\* --------------------------------------------------------- process_command

\* The Response process_command returns, with the pass's record of the names
\* of the units it consulted (validate_command) and invoked (process_command),
\* of where the exception came from that its except clause caught ("" for
\* none), and of the slot of the set its loop had reached.
DispatchReturn(d, response, caught) ==
    [dp |-> IdleDispatch,
     ret |-> [op |-> "process_command", arg |-> d.command, val |-> response,
              consulted |-> d.consulted, invoked |-> d.invoked,
              at_start |-> d.at_start, caught |-> caught, pos |-> d.pos,
              refs |-> {}]]

\* The call is suspended in the await of a unit's coroutine.
DispatchAwait(d, pc) == [dp |-> [d EXCEPT !.pc = pc], ret |-> NoReturn]

\* `return await plugin.process_command(command, context)`: the unit's
\* Response is returned as is; an exception goes to the except clause.
DispatchProcessed(d) ==
    {DispatchReturn(d, response, "") :
        response \in ProcessResponsesTo(NameOf(d.plugin), d.command)}
        \cup (IF ProcessMayRaise(NameOf(d.plugin))
              THEN {DispatchReturn(d, PluginError(FaultText), "process_command")}
              ELSE {})

RECURSIVE DispatchLoop(_), DispatchValidated(_, _)

\* `for plugin_name in self.active_plugins: plugin = self.plugins[plugin_name]`
\* and `await plugin.validate_command(command)`, from one suspension to the
\* next or to the return.  The set iterator raises RuntimeError when the
\* set's size changed since the loop began.
DispatchLoop(d) ==
    IF Cardinality(active_plugins) # d.used
    THEN {DispatchReturn(d, PluginError(SetChangedSize), "set iterator")}
    ELSE LET i == SetNext(active_plugins, d.pos) IN
         IF i = 0
         THEN {DispatchReturn(d, NoPluginAvailable, "")}
         ELSE IF hashOrder[i] \notin keys(plugins)
         THEN {DispatchReturn(d, PluginError(KeyErrorText(hashOrder[i])), "self.plugins")}
         ELSE LET plugin == getitem(plugins, hashOrder[i])
                  d1 == [d EXCEPT !.pos = i, !.plugin = plugin,
                                  !.consulted = Append(@, hashOrder[i])]
              IN  IF Awaits(NameOf(plugin))
                  THEN {DispatchAwait(d1, "validate_command")}
                  ELSE UNION {DispatchValidated(d1, outcome) :
                                outcome \in ValidateOutcomes(NameOf(plugin), d.command)}

\* A faulty variant of DispatchValidated that, after the unit that accepted,
\* goes on with the next unit.
DispatchValidated_GoesOn(d, outcome) ==
    CASE outcome = "True" ->
            DispatchLoop([d EXCEPT !.invoked = Append(@, NameOf(d.plugin))])
      [] outcome = "False" -> DispatchLoop(d)
      [] OTHER -> {DispatchReturn(d, PluginError(FaultText), "validate_command")}

\* From the return of the unit's validate_command: True goes on to the
\* unit's process_command, False to the next unit, an exception to the
\* except clause.
DispatchValidated(d, outcome) ==
    CASE outcome = "True" ->
            LET d1 == [d EXCEPT !.invoked = Append(@, NameOf(d.plugin))] IN
            IF Awaits(NameOf(d.plugin))
            THEN {DispatchAwait(d1, "process_command")}
            ELSE DispatchProcessed(d1)
      [] outcome = "False" -> DispatchLoop(d)
      [] OTHER -> {DispatchReturn(d, PluginError(FaultText), "validate_command")}

\* A faulty variant of DispatchStep that takes the unit it was in out of the
\* active set when the call ends without a Response of a unit.
DispatchStep_Deactivates(step) ==
    /\ dp' = step.dp
    /\ ret' = step.ret
    /\ instances' = Collect(instances, Roots(plugins, ld, ul, dp', sd, ret'))
    /\ active_plugins' = IF step.dp.pc = "idle" /\ dp.pc # "idle"
                         THEN active_plugins \ {NameOf(dp.plugin)}
                         ELSE active_plugins
    /\ UNCHANGED <<plugins, hashOrder, ld, ul, sd, activation>>

\* One atomic stretch of process_command: the call's locals and what it returned.
DispatchStep(step) ==
    /\ dp' = step.dp
    /\ ret' = step.ret
    /\ instances' = Collect(instances, Roots(plugins, ld, ul, dp', sd, ret'))
    /\ UNCHANGED <<plugins, active_plugins, hashOrder, ld, ul, sd, activation>>

\* process_command from its call to the first suspension or to its return.
DispatchBegin(command) ==
    /\ dp.pc = "idle"
    /\ \E step \in DispatchLoop([pc |-> "idle", command |-> command, pos |-> 0,
                                 used |-> Cardinality(active_plugins),
                                 plugin |-> NoObject,
                                 consulted |-> <<>>, invoked |-> <<>>,
                                 at_start |-> active_plugins]) :
          /\ step.dp.pc # "idle" => InFlight < MaxInFlight
          /\ DispatchStep(step)

\* process_command resumes when the unit's validate_command ends.
DispatchValidateEnd(outcome) ==
    /\ dp.pc = "validate_command"
    /\ outcome \in ValidateOutcomes(NameOf(dp.plugin), dp.command)
    /\ \E step \in DispatchValidated(dp, outcome) : DispatchStep(step)

\* process_command resumes when the unit's process_command ends.
DispatchProcessEnd ==
    /\ dp.pc = "process_command"
    /\ \E step \in DispatchProcessed(dp) : DispatchStep(step)

\* ---------------------------------------------------------------- shutdown

\* How a stretch of shutdown ends: suspended in a unit's shutdown(), past
\* the loop ("clear"), or in the except clause around it ("abort").
ShutdownResult(kind, s, insts) == [kind |-> kind, sd |-> s, instances |-> insts]

RECURSIVE ShutdownLoop(_, _), ShutdownUnitReturned(_, _, _)

\* `for plugin in self.plugins.values(): await plugin.shutdown()`, from one
\* suspension to the next or to the end.  The dict iterator raises
\* RuntimeError when the dict's size changed since the loop began, or when it
\* finds an entry after it has yielded as many as the dict held.
ShutdownLoop(s, insts) ==
    IF len(plugins) # s.used
    THEN {ShutdownResult("abort", s, insts)}
    ELSE LET i == DictNext(plugins, s.pos) IN
         IF i = 0
         THEN {ShutdownResult("clear", s, insts)}
         ELSE IF s.left = 0
         THEN {ShutdownResult("abort", s, insts)}
         ELSE LET plugin == plugins[i].plugin
                  s1 == [s EXCEPT !.pc = "shutdown", !.pos = i, !.left = @ - 1,
                                  !.plugin = plugin, !.called = Append(@, plugins[i].name)]
              IN  IF Awaits(NameOf(plugin))
                  THEN {ShutdownResult("await", s1, insts)}
                  ELSE UNION {ShutdownUnitReturned(s1, insts, outcome) :
                                outcome \in ShutdownOutcomes(NameOf(plugin))}

\* From the return of one unit's shutdown(): on to the next unit, or, when
\* the unit raised, to the except clause around the whole loop.
ShutdownUnitReturned(s, insts, outcome) ==
    IF outcome = "ok"
    THEN ShutdownLoop(s, EndShutdown(insts, s.plugin, outcome))
    ELSE {ShutdownResult("abort", s, EndShutdown(insts, s.plugin, outcome))}

\* What shutdown logged when it returned (it returns None either way).
ShutdownReturn(s, logged) ==
    [op |-> "shutdown", arg |-> s.at_start, val |-> logged, called |-> s.called,
     refs |-> {}]

\* One atomic stretch of shutdown.  After the loop,
\* `self.plugins.clear(); self.active_plugins.clear()`; in the except clause
\* the error is logged and nothing is cleared.
ShutdownStep(r) ==
    /\ (r.kind = "await" /\ sd.pc = "idle") => InFlight < MaxInFlight
    /\ sd' = IF r.kind = "await" THEN r.sd ELSE IdleShutdown
    /\ plugins' = CASE r.kind = "clear" -> <<>>
                    [] r.kind = "abort" -> compact(plugins)
                    [] OTHER -> plugins
    /\ active_plugins' = IF r.kind = "clear" THEN {} ELSE active_plugins
    /\ activation' = IF r.kind = "clear" THEN <<>> ELSE activation
    /\ ret' = CASE r.kind = "clear" -> ShutdownReturn(r.sd, "All plugins shutdown complete")
                [] r.kind = "abort" -> ShutdownReturn(r.sd, "Error during plugin shutdown")
                [] OTHER -> NoReturn
    /\ instances' = Collect(r.instances, Roots(plugins', ld, ul, dp, sd', ret'))
    /\ UNCHANGED <<hashOrder, ld, ul, dp>>

\* shutdown from its call to the first suspension or to its return.
ShutdownBegin ==
    /\ sd.pc = "idle"
    /\ \E r \in ShutdownLoop([pc |-> "idle", pos |-> 0, used |-> len(plugins),
                              left |-> len(plugins), plugin |-> NoObject,
                              called |-> <<>>, at_start |-> keys(plugins)],
                             instances) :
          ShutdownStep(r)

\* shutdown resumes when the unit's shutdown() ends.
ShutdownUnitEnd(outcome) ==
    /\ sd.pc = "shutdown"
    /\ outcome \in ShutdownOutcomes(NameOf(sd.plugin))
    /\ \E r \in ShutdownUnitReturned(sd, instances, outcome) : ShutdownStep(r)

\* ------------------------------------------------------------ specification

Next ==
    \/ \E cls \in Names \cup {"InvalidPlugin"} : LoadBegin(cls)
    \/ \E outcome \in {"True", "False", "raise"} : LoadEnd(outcome)
    \/ \E plugin_name \in Names : UnloadBegin(plugin_name)
    \/ \E call \in BagToSet(ul), outcome \in {"ok", "raise", "clear_then_raise"} :
          UnloadEnd(call, outcome)
    \/ \E plugin_name \in Names : activate_plugin(plugin_name)
    \/ \E plugin_name \in Names : deactivate_plugin(plugin_name)
    \/ \E command \in Commands : DispatchBegin(command)
    \/ \E outcome \in {"True", "False", "raise"} : DispatchValidateEnd(outcome)
    \/ DispatchProcessEnd
    \/ ShutdownBegin
    \/ \E outcome \in {"ok", "raise", "clear_then_raise"} : ShutdownUnitEnd(outcome)

Spec == Init /\ [][Next]_vars

\* The manager with units whose coroutines terminate: an awaited
\* validate_command or process_command of a unit ends, and the event loop
\* then resumes the suspended process_command.  Each such step changes the
\* call's locals dp.
DispatchFairness ==
    /\ WF_dp(\E outcome \in {"True", "False", "raise"} : DispatchValidateEnd(outcome))
    /\ WF_dp(DispatchProcessEnd)

LiveSpec == Init /\ [][Next]_vars /\ DispatchFairness

\* ------------------------------------------- queries and cancellation

\* A faulty variant of InfoActive that reports the unit's own flag.
InfoActive_Flag(plugin) == is_active(plugin)

\* 'active': plugin.name in self.active_plugins
InfoActive(plugin) == NameOf(plugin) \in active_plugins

\* {**plugin.get_info(), 'active': ...}: of get_info the name and the number
\* of registered commands; description, version and author are constants.
get_info(plugin) ==
    [name |-> NameOf(plugin), commands |-> Cardinality(Patterns(NameOf(plugin))),
     active |-> InfoActive(plugin)]

\* A query returned val; it is synchronous and writes nothing.
Query(op, val) ==
    /\ ret' = Return(op, "", val, {})
    /\ instances' = Collect(instances, Roots(plugins, ld, ul, dp, sd, ret'))
    /\ UNCHANGED <<plugins, active_plugins, hashOrder, ld, ul, dp, sd, activation>>

\* list(self.active_plugins): the names in the set's iteration order.
get_active_plugins ==
    Query("get_active_plugins", SelectSeq(hashOrder, LAMBDA n : n \in active_plugins))

\* One dictionary for each of self.plugins.values(), in the dict's order.
get_available_plugins ==
    Query("get_available_plugins",
          LET d == compact(plugins) IN [i \in DOMAIN d |-> get_info(d[i].plugin)])

\* The Host cancels a suspended process_command: CancelledError is raised at
\* the await.  Where it derives from BaseException (Python 3.8 on) it passes
\* the `except Exception` clause and leaves the call ("escapes"); where it
\* derives from Exception the clause turns it into an error Response
\* ("caught").  str(CancelledError()) is empty.
DispatchCancel(outcome) ==
    /\ dp.pc \in {"validate_command", "process_command"}
    /\ DispatchStep(IF outcome = "escapes"
                    THEN [dp |-> IdleDispatch,
                          ret |-> Return("cancelled", dp.command, dp.pc, {})]
                    ELSE DispatchReturn(dp, PluginError(""), "cancelled"))

HostNext ==
    \/ Next
    \/ get_active_plugins
    \/ get_available_plugins
    \/ \E outcome \in {"escapes", "caught"} : DispatchCancel(outcome)

\* The manager as a Host uses it: the calls of Spec, the queries, and
\* cancellation of a dispatch in flight.
HostSpec == Init /\ [][HostNext]_vars

\* --------------------------------------------------------- the unit alone
\* A unit driven directly, as the tests of TestBasePlugin and
\* TestBuiltinPlugins drive it: constructed, then initialize(),
\* register_command, validate_command, process_command and handle_error
\* called on it, with no manager in between.

\* The concrete unit classes driven directly.
UnitClasses == {"ValidationPlugin", "JokePlugin"}

\* The register_command calls of initialize(), in order.
InitializeRegisters(cls) ==
    CASE cls = "ValidationPlugin" -> <<S_hello_re, S_bye_re>>
      [] cls = "JokePlugin" -> <<S_tell_joke_pattern, S_make_me_laugh>>
      [] cls = "TimePlugin" -> <<S_time_pattern, S_date_pattern>>
      [] cls = "CalculatorPlugin" -> <<S_calculate, S_calc_pattern>>
      [] OTHER -> <<>>

\* The patterns the Host registers directly, and the commands it validates.
UnitPatterns == {S_hello_re, S_bye_re, S_test, S_TEST}

UnitCommands ==
    {S_hello_world, S_bye_now, S_invalid_command, S_SAY_HELLO_RE, S_test,
     S_tell_me_a_joke}

\* BasePlugin.__init__: commands = {}, is_active = False.  self.commands is
\* held as the sequence of its keys in insertion order; the descriptions are
\* never read by the unit.
NewUnit == [is_active |-> FALSE, commands |-> <<>>]

\* `self.commands[pattern] = description`: a new key goes last, an existing
\* key keeps its place.
register_command(commands, pattern) ==
    IF pattern \in Range(commands) THEN commands ELSE Append(commands, pattern)

\* The loop of BasePlugin.validate_command from the i-th key on: True at the
\* first pattern that, lower-cased, is in the lower-cased command; False
\* after the last.
RECURSIVE ValidateLoop(_, _, _)
ValidateLoop(commands, command, i) ==
    IF i > Len(commands) THEN FALSE
    ELSE IF str_in(lower(commands[i]), lower(command)) THEN TRUE
    ELSE ValidateLoop(commands, command, i + 1)

\* What a direct call on the unit returned.
UnitReturn(op, arg, val) == [op |-> op, arg |-> arg, val |-> val, refs |-> {}]

\* No manager takes part.
UnitFrame == UNCHANGED <<plugins, active_plugins, hashOrder, ld, ul, dp, sd, activation>>

\* plugin = cls(assistant), for one of the classes, and no manager.
Constructed(classes) ==
    /\ \E cls \in classes : instances = [p \in {FreshId(<<>>, cls)} |-> NewUnit]
    /\ plugins = <<>>
    /\ active_plugins = {}
    /\ hashOrder = <<>>
    /\ ret = NoReturn
    /\ ld = IdleLoad
    /\ ul = EmptyBag
    /\ dp = IdleDispatch
    /\ sd = IdleShutdown
    /\ activation = <<>>

UnitInit == Constructed(UnitClasses)

\* The registrations regs applied to commands, in order.
RECURSIVE RegisterAll(_, _)
RegisterAll(commands, regs) ==
    IF regs = <<>> THEN commands
    ELSE RegisterAll(register_command(commands, Head(regs)), Tail(regs))

\* await plugin.initialize()
UnitInitialize(p) ==
    /\ instances' =
          [instances EXCEPT
              ![p].commands = RegisterAll(@, InitializeRegisters(NameOf(p))),
              ![p].is_active = @ \/ InitSetsActive(NameOf(p))]
    /\ ret' = UnitReturn("initialize", <<>>, TRUE)
    /\ UnitFrame

\* plugin.register_command(pattern, description)
UnitRegister(p, pattern) ==
    /\ Len(instances[p].commands) < MaxCommands \/ pattern \in Range(instances[p].commands)
    /\ instances' = [instances EXCEPT ![p].commands = register_command(@, pattern)]
    /\ ret' = UnitReturn("register_command", pattern, TRUE)
    /\ UnitFrame

\* await plugin.validate_command(command)
UnitValidate(p, command) ==
    /\ ret' = UnitReturn("validate_command", command,
                         ValidateLoop(instances[p].commands, command, 1))
    /\ UNCHANGED instances
    /\ UnitFrame

UnitNext ==
    \/ \E p \in DOMAIN instances : UnitInitialize(p)
    \/ \E p \in DOMAIN instances, pattern \in UnitPatterns : UnitRegister(p, pattern)
    \/ \E p \in DOMAIN instances, command \in UnitCommands : UnitValidate(p, command)

UnitSpec == UnitInit /\ [][UnitNext]_vars

\* ------------------------------------------- the example units on their own

\* The operands the Host writes into calculator commands.
OperandValues == 0..MaxOperand

\* Whether the digits after the point of rem/den end within n digits.
RECURSIVE Terminates(_, _, _)
Terminates(rem, den, n) ==
    rem = 0 \/ (n > 0 /\ Terminates((rem * 10) % den, den, n - 1))

\* The calculator commands the Host sends: a op b after "calculate " or
\* "what's ", with or without blanks around the operator.  A quotient whose
\* decimal expansion does not end is left out: the digits of its repr are set
\* by the binary rounding of the division.
CalcCommands ==
    {prefix \o IntStr(x[1]) \o blank \o <<x[2]>> \o blank \o IntStr(x[3]) :
        prefix \in {S_calculate_, S_whats_}, blank \in {<<>>, <<" ">>},
        x \in {y \in OperandValues \X Operators \X OperandValues :
                  (y[2] = "/" /\ y[3] # 0) => Terminates(y[1] % y[3], y[3], ReprDigits)}}

\* The commands the Host sends to a unit of class cls directly.
ProcCommands(cls) ==
    CASE cls = "JokePlugin" -> {S_tell_me_a_joke}
      [] cls = "TimePlugin" -> {S_whats_the_time, S_whats_todays_date, S_test, None}
      [] cls = "CalculatorPlugin" ->
            CalcCommands \cup {S_calculate_10_plus_5, S_whats_15_by_3, S_calculate, None}
      [] OTHER -> {}

\* The errors the Host hands to handle_error directly.
ErrorTexts == {"Test error", NotAStringText}

\* plugin = cls(assistant), for an example unit.
ProcInit == Constructed(BuiltinClasses)

\* await plugin.process_command(command)
UnitProcess(p, command, outcome) ==
    /\ command \in ProcCommands(NameOf(p))
    /\ outcome \in BuiltinProcess(NameOf(p), command)
    /\ ret' = [op |-> "process_command", arg |-> command, val |-> outcome.val,
               raised |-> outcome.raised, refs |-> {}]
    /\ UNCHANGED instances
    /\ UnitFrame

\* await plugin.handle_error(Exception(text))
UnitHandleError(p, text) ==
    /\ ret' = UnitReturn("handle_error", text, handle_error(text))
    /\ UNCHANGED instances
    /\ UnitFrame

ProcNext ==
    \/ \E p \in DOMAIN instances : UnitInitialize(p)
    \/ \E p \in DOMAIN instances :
          \E command \in ProcCommands(NameOf(p)) :
             \E outcome \in BuiltinProcess(NameOf(p), command) :
                UnitProcess(p, command, outcome)
    \/ \E p \in DOMAIN instances, text \in ErrorTexts : UnitHandleError(p, text)

ProcSpec == ProcInit /\ [][ProcNext]_vars

\* ------------------------------------------- the example units in a manager
\* A Host that loads the three example units into one PluginManager,
\* activates them and dispatches commands, as test_multiple_plugins does.

\* The commands test_multiple_plugins dispatches.
BuiltinCommands == {S_tell_me_a_joke, S_whats_the_time, S_calculate_10_plus_5}

\* PluginManager(assistant), in a process with some hash order of the three
\* identities.
BuiltinInit ==
    /\ instances = [p \in {} |-> NewInstance]
    /\ plugins = <<>>
    /\ active_plugins = {}
    /\ hashOrder \in HashOrders(BuiltinClasses)
    /\ ret = NoReturn
    /\ ld = IdleLoad
    /\ ul = EmptyBag
    /\ dp = IdleDispatch
    /\ sd = IdleShutdown
    /\ activation = <<>>

\* The Host loads each unit once.
BuiltinNext ==
    \/ \E cls \in Names \ keys(plugins) : LoadBegin(cls)
    \/ \E plugin_name \in Names : activate_plugin(plugin_name)
    \/ \E command \in BuiltinCommands : DispatchBegin(command)

BuiltinSpec == BuiltinInit /\ [][BuiltinNext]_vars

\* ------------------------------------------------------------------ claims

\* How often x occurs in seq.
Count(seq, x) == Cardinality({i \in DOMAIN seq : seq[i] = x})

\* The unit's validate_command and process_command are the plain ones: they
\* neither suspend nor raise.
Plain(cls) ==
    /\ ~Awaits(cls)
    /\ \A command \in Commands : "raise" \notin ValidateOutcomes(cls, command)
    /\ ~ProcessMayRaise(cls)

\* C1: when two loaded units A and B both accept the command and were
\* activated in the order A then B, process_command returns A's Response and
\* never B's, whatever order the set happens to iterate in.
C1_FirstMatchWins ==
    \A A \in Names, B \in Names :
        (/\ ret.op = "process_command"
         /\ A # B /\ Plain(A) /\ Plain(B)
         /\ activation = <<A, B>>
         /\ validate_command(A, ret.arg) /\ validate_command(B, ret.arg))
        => ret.val \in ProcessResponses(A)

\* C2: every identity in the active set is a key of the units map, in every
\* reachable state, the states in which calls are suspended included.
C2_ActiveAreLoaded == active_plugins \subseteq keys(plugins)

\* C2 case: an unload_plugin completed while shutdown was suspended in a
\* unit's shutdown(), and identities remain active.
C2_Witness ==
    /\ sd.pc = "shutdown"
    /\ ret.op = "unload_plugin" /\ ret.val = TRUE
    /\ active_plugins # {}

\* C3: a load under an identity already present leaves exactly one entry for
\* it, the new unit, and invokes the replaced unit's shutdown() exactly once
\* during the call.
C3_ReplacedIsShutDown ==
    (ret.op = "load_plugin" /\ ret.val = TRUE /\ ret.replaced # {})
    => /\ Cardinality({i \in DOMAIN plugins : plugins[i].name = ret.arg}) = 1
       /\ getitem(plugins, ret.arg) = ret.plugin
       /\ \A q \in ret.replaced : Count(ret.shutdowns, q) = 1

C5_UnitFaultIsAnswered ==
    (ret.op = "process_command" /\ ret.caught \in {"validate_command", "process_command"})
    => ret.val = [success |-> FALSE, message |-> "Plugin error: unit fault"]

\* C5 case: a unit raised from its process_command.
C5_Witness == ret.op = "process_command" /\ ret.caught = "process_command"

\* C6 as stated: whenever no active unit's validate_command accepted the
\* command, process_command returns exactly the no-match Response.
C6_NoMatchWheneverNoneAccepts ==
    (ret.op = "process_command" /\ ret.invoked = <<>>)
    => ret.val = [success |-> FALSE,
                  message |-> "No plugin available to handle this command"]

\* C6 amended: process_command returns exactly the no-match Response when
\* the pass reached the end of the active set with every validate_command it
\* called returning False, so for every command when the active set is empty;
\* and whenever it returns that Response no unit's process_command was invoked.
C6_NoMatchAfterFullPass ==
    ret.op = "process_command"
    => LET NoMatch == [success |-> FALSE,
                       message |-> "No plugin available to handle this command"]
       IN  /\ (ret.invoked = <<>> /\ ret.caught = "") => ret.val = NoMatch
           /\ ret.at_start = {} => (ret.val = NoMatch /\ ret.consulted = <<>>)
           /\ ret.val = NoMatch => ret.invoked = <<>>

\* C6 case: units were consulted, every one rejected the command, and the
\* no-match Response came back.
C6_Witness ==
    /\ ret.op = "process_command"
    /\ ret.consulted # <<>> /\ ret.invoked = <<>> /\ ret.caught = ""

\* C7: within one process_command call at most one unit's process_command is
\* invoked; the unit whose validate_command returned True is the last one
\* consulted, and its Response is what the call returns.
C7_AtMostOneInvoked ==
    ret.op = "process_command"
    => /\ Len(ret.invoked) <= 1
       /\ ret.invoked # <<>>
          => /\ ret.consulted[Len(ret.consulted)] = ret.invoked[1]
             /\ ret.caught = "" => ret.val \in ProcessResponses(ret.invoked[1])

\* C7 case: two units that both accept the command were active, and the pass
\* returned after consulting one of them.
C7_Witness ==
    /\ ret.op = "process_command"
    /\ Cardinality(ret.at_start) = 2
    /\ \A n \in ret.at_start : validate_command(n, ret.arg)
    /\ Len(ret.consulted) = 1 /\ Len(ret.invoked) = 1

\* C8: after shutdown() returns, the units map and the active set are both
\* empty, even if some unit's shutdown() raised.
C8_ShutdownEmptiesBoth ==
    ret.op = "shutdown" => (plugins = <<>> /\ active_plugins = {})

\* C9: during shutdown() every unit that was loaded when the call began has
\* its shutdown() invoked exactly once, whether or not an earlier unit's
\* shutdown() raised.
C9_EveryUnitShutDownOnce ==
    ret.op = "shutdown" => \A n \in ret.arg : Count(ret.called, n) = 1

\* C10 as stated: unload_plugin of an identity present in units invokes the
\* unit's shutdown(), so that its is_active is false, removes the identity
\* from units and from the active set, and returns True.
C10_UnloadAlwaysRemoves ==
    (ret.op = "unload_plugin" /\ ret.plugin # NoObject)
    => /\ ret.val = TRUE
       /\ ~is_active(ret.plugin)
       /\ ret.arg \notin keys(plugins)
       /\ ret.arg \notin active_plugins

\* C10 amended: unload_plugin of an identity present in units invokes the
\* unit's shutdown(); when that returns normally and the identity is still a
\* key of units, the unit's is_active is false, the identity is removed from
\* units and from the active set and the call returns True; otherwise the
\* call returns False.
C10_UnloadRemovesAfterCleanShutdown ==
    (ret.op = "unload_plugin" /\ ret.plugin # NoObject)
    => IF ret.outcome = "ok" /\ ret.present
       THEN /\ ret.val = TRUE
            /\ ~is_active(ret.plugin)
            /\ ret.arg \notin keys(plugins)
            /\ ret.arg \notin active_plugins
       ELSE ret.val = FALSE

\* C10 case: unload_plugin returned True for a unit whose shutdown() had
\* suspended, while other identities stay active.
C10_Witness ==
    /\ ret.op = "unload_plugin" /\ ret.val = TRUE
    /\ Awaits(NameOf(ret.plugin))
    /\ active_plugins # {}

\* The flags of the units that exist before and after a step are the same.
FlagsUnchanged ==
    \A p \in DOMAIN instances \cap DOMAIN instances' : instances'[p] = instances[p]

\* C11: activate_plugin of an identity present in units returns True and
\* leaves the identity in the active set with the unit's is_active true; a
\* deactivate_plugin of the same identity that follows it returns True and
\* leaves the identity out of the active set with the unit's is_active false.
\* Neither changes the units map or another identity's membership in the
\* active set.
C11_ActivateThenDeactivate ==
    [][/\ (ret'.op = "activate_plugin" /\ ret'.arg \in keys(plugins))
          => /\ ret'.val = TRUE
             /\ ret'.arg \in active_plugins'
             /\ instances'[getitem(plugins', ret'.arg)].is_active
             /\ plugins' = plugins
             /\ active_plugins' \ {ret'.arg} = active_plugins \ {ret'.arg}
       /\ (/\ ret.op = "activate_plugin" /\ ret.val = TRUE
           /\ ret'.op = "deactivate_plugin" /\ ret'.arg = ret.arg)
          => /\ ret'.val = TRUE
             /\ ret'.arg \notin active_plugins'
             /\ ~instances'[getitem(plugins', ret'.arg)].is_active
             /\ plugins' = plugins
             /\ active_plugins' \ {ret'.arg} = active_plugins \ {ret'.arg}]_vars

\* C11 case: deactivate_plugin returned True for a loaded identity while
\* another identity stays active.
C11_Witness ==
    /\ ret.op = "deactivate_plugin" /\ ret.val = TRUE
    /\ ret.arg \in keys(plugins)
    /\ ~is_active(getitem(plugins, ret.arg))
    /\ active_plugins # {}

\* C12: deactivate_plugin of a loaded identity that is not in the active set
\* returns False (a value, not an exception) and leaves the active set as it
\* was.
C12_DeactivateInactive ==
    [][(/\ ret'.op = "deactivate_plugin"
        /\ ret'.arg \in keys(plugins)
        /\ ret'.arg \notin active_plugins)
       => (ret'.val = FALSE /\ active_plugins' = active_plugins)]_vars

\* C12 case: deactivate_plugin returned False for a loaded identity.
C12_Witness ==
    /\ ret.op = "deactivate_plugin" /\ ret.val = FALSE
    /\ ret.arg \in keys(plugins)

\* C13: unload_plugin, activate_plugin and deactivate_plugin of an identity
\* that is not a key of units return False, invoke no unit operation, and
\* leave units, the active set and every unit's is_active as they were.
C13_UnknownIdentityIsNoOp ==
    [][/\ (/\ ret'.op \in {"activate_plugin", "deactivate_plugin"}
           /\ ret'.arg \notin keys(plugins))
          => /\ ret'.val = FALSE
             /\ plugins' = plugins /\ active_plugins' = active_plugins
             /\ FlagsUnchanged
       /\ (/\ ret'.op = "unload_plugin" /\ ul' = ul
           /\ ret'.arg \notin keys(plugins))
          => /\ ret'.val = FALSE
             /\ ret'.plugin = NoObject /\ ret'.outcome = "not called"
             /\ plugins' = plugins /\ active_plugins' = active_plugins
             /\ FlagsUnchanged]_vars

\* C13 case: a call with an unknown identity returned while a unit is loaded
\* and active.
C13_Witness ==
    /\ ret.op \in {"unload_plugin", "activate_plugin", "deactivate_plugin"}
    /\ ret.arg \notin keys(plugins)
    /\ ret.val = FALSE
    /\ active_plugins # {}

\* C16: load_plugin of a class that does not satisfy the plugin contract (its
\* constructor takes no assistant argument) raises to the caller: the call
\* does not return a value.
C16_InvalidClassRaises ==
    (ret.op = "load_plugin" /\ CtorRaises(ret.arg)) => ret.val \notin BOOLEAN

\* C17: each unit stored in units has is_active true exactly when its
\* identity is in the active set, in every reachable state; so a unit just
\* loaded and not yet activated has is_active false.
C17_FlagMirrorsActiveSet ==
    \A name \in keys(plugins) :
        is_active(getitem(plugins, name)) <=> name \in active_plugins

\* The commands dict of the unit driven directly.
UnitCommandsDict == instances[CHOOSE p \in DOMAIN instances : TRUE].commands

C15_PatternsMatchAsWritten ==
    (ret.op = "validate_command" /\ UnitCommandsDict = <<S_hello_re, S_bye_re>>)
    => /\ ret.arg \in {S_hello_world, S_bye_now} => ret.val = TRUE
       /\ ret.arg = S_invalid_command => ret.val = FALSE

\* The unit driven directly.
TheUnit == CHOOSE p \in DOMAIN instances : TRUE

\* C18: process_command of a unit of example_plugin.py always returns a
\* Response; when its body raises, the Response is handle_error's,
\* {success: False, message: "Plugin error: <text>", error: <text>} with
\* <text> the error's string form; and handle_error, called by the unit or
\* directly, changes nothing of the unit or of a manager.
C18_FaultsBecomeErrorResponses ==
    [][/\ ret'.op = "process_command"
          => /\ "success" \in DOMAIN ret'.val
             /\ ret'.raised # ""
                => /\ ret'.val = [success |-> FALSE,
                                  message |-> "Plugin error: " \o ret'.raised,
                                  error |-> ret'.raised]
                   /\ UNCHANGED <<instances, plugins, active_plugins>>
       /\ ret'.op = "handle_error"
          => /\ ret'.val = [success |-> FALSE,
                            message |-> "Plugin error: " \o ret'.arg,
                            error |-> ret'.arg]
             /\ UNCHANGED <<instances, plugins, active_plugins>>]_vars

\* C18 case: an initialized unit's process_command raised inside its try
\* block and returned the error Response.
C18_Witness ==
    /\ ret.op = "process_command" /\ ret.raised # ""
    /\ ret.val.success = FALSE
    /\ instances[TheUnit].commands # <<>>

\* C20: for a command holding a, an operator of + - * / and b, the
\* calculator unit returns success with the arithmetic result of a op b, its
\* message holding the result's digits ("what's 5 + 3" and "calculate 5 + 3"
\* give a message containing "8"); for b = 0 under / it returns, without an
\* exception, a Response with success false whose message contains
\* "divide by zero".
C20_CalculatorComputes ==
    (ret.op = "process_command" /\ NameOf(TheUnit) = "CalculatorPlugin")
    => /\ \A prefix \in {S_calculate_, S_whats_}, blank \in {<<>>, <<" ">>},
            op \in Operators, a \in OperandValues, b \in OperandValues :
            ret.arg = prefix \o IntStr(a) \o blank \o <<op>> \o blank \o IntStr(b)
            => IF op = "/" /\ b = 0
               THEN /\ ret.val.success = FALSE
                    /\ str_in(S_divide_by_zero, ret.val.message)
                    /\ ret.raised = "" /\ "error" \notin DOMAIN ret.val
               ELSE /\ ret.val.success = TRUE
                    /\ LET r == ret.val.result IN
                       /\ op = "+" => (r.den = 1 /\ r.num = a + b)
                       /\ op = "-" => (r.den = 1 /\ r.num = a - b)
                       /\ op = "*" => (r.den = 1 /\ r.num = a * b)
                       /\ op = "/" => (r.den > 0 /\ r.num * b = a * r.den)
                       /\ (r.den = 1 /\ r.num >= 0) => str_in(IntStr(r.num), ret.val.message)
       /\ ret.arg \in {S_whats_ \o <<"5", " ", "+", " ", "3">>,
                       S_calculate_ \o <<"5", " ", "+", " ", "3">>}
          => (ret.val.success = TRUE /\ str_in(<<"8">>, ret.val.message))
       /\ ret.arg = S_whats_ \o <<"5", " ", "/", " ", "0">>
          => (ret.val.success = FALSE /\ str_in(S_divide_by_zero, ret.val.message))

\* C20 case: the calculator unit answered "what's 5 + 3" with a message
\* that contains "8".
C20_Witness ==
    /\ ret.op = "process_command" /\ NameOf(TheUnit) = "CalculatorPlugin"
    /\ ret.arg = S_whats_ \o <<"5", " ", "+", " ", "3">>
    /\ ret.val.success = TRUE
    /\ str_in(<<"8">>, ret.val.message)

\* C19: with JokePlugin, TimePlugin and CalculatorPlugin loaded and
\* activated, process_command of "tell me a joke", "what's the time" and
\* "calculate 10 + 5" each returns a Response with success true, the one for
\* the joke command with a message out of the joke unit's list.
C19_BuiltinCommandsSucceed ==
    (/\ ret.op = "process_command"
     /\ ret.arg \in BuiltinCommands
     /\ ret.at_start = BuiltinClasses
     /\ keys(plugins) = BuiltinClasses)
    => /\ ret.val.success = TRUE
       /\ ret.arg = S_tell_me_a_joke => ret.val.message \in Jokes

\* No element occurs twice in seq.
NoDuplicates(seq) == \A i, j \in DOMAIN seq : seq[i] = seq[j] => i = j

\* C21: provided the units' validate_command and process_command terminate,
\* every process_command call returns, and what it returns is a Response
\* with a success flag and a message; within one call no unit is consulted
\* twice.
C21_DispatchReturnsResponse ==
    /\ [](IF dp.pc # "idle" THEN NoDuplicates(dp.consulted) ELSE TRUE)
    /\ [](IF ret.op = "process_command"
          THEN /\ {"success", "message"} \subseteq DOMAIN ret.val
               /\ ret.val.success \in BOOLEAN
               /\ NoDuplicates(ret.consulted)
          ELSE TRUE)
    /\ (dp.pc # "idle") ~> (dp.pc = "idle" /\ ret.op = "process_command")

\* C21 case: a process_command that was suspended in a unit's coroutine has
\* returned, after consulting more than one unit.
C21_Witness ==
    /\ ret.op = "process_command"
    /\ \E i \in DOMAIN ret.consulted : Awaits(ret.consulted[i])
    /\ Len(ret.consulted) > 1

\* A step that leaves units, the active set and the flag of every unit alone.
RegistryUnchanged ==
    /\ plugins' = plugins
    /\ active_plugins' = active_plugins
    /\ FlagsUnchanged

\* C22: get_available_plugins returns one entry for each unit stored in
\* units and no other, each entry's active field being true exactly when the
\* unit's identity is in the active set; get_active_plugins returns the
\* identities in the active set, each once, and no other; neither changes
\* units, the active set or a unit.
C22_QueriesReportRegistry ==
    [][/\ IF ret'.op = "get_available_plugins"
          THEN /\ Len(ret'.val) = len(plugins)
               /\ {ret'.val[i].name : i \in DOMAIN ret'.val} = keys(plugins)
               /\ \A i \in DOMAIN ret'.val :
                     ret'.val[i].active <=> (ret'.val[i].name \in active_plugins)
               /\ RegistryUnchanged
          ELSE TRUE
       /\ IF ret'.op = "get_active_plugins"
          THEN /\ Range(ret'.val) = active_plugins
               /\ NoDuplicates(ret'.val)
               /\ RegistryUnchanged
          ELSE TRUE]_vars

\* C22 case: get_available_plugins has returned entries for two stored units,
\* one in the active set, and one outside it whose own is_active flag is set.
C22_Witness ==
    /\ ret.op = "get_available_plugins"
    /\ \E i, j \in DOMAIN ret.val :
          /\ ret.val[i].active
          /\ ~ret.val[j].active
          /\ is_active(getitem(plugins, ret.val[j].name))

\* C23: a dispatch pass works on the active set as it was when the pass
\* began, whatever load_plugin, unload_plugin, activate_plugin or
\* deactivate_plugin does while the pass is suspended in a unit: it consults
\* only units active at its start, it skips none of them before it reports
\* that no unit took the command, and it does not end in a "Plugin error"
\* Response that comes from the iteration over the changed set or from the
\* lookup of a unit that is gone.
C23_PassWorksOnSnapshot ==
    IF ret.op = "process_command"
    THEN /\ ret.caught \notin {"set iterator", "self.plugins"}
         /\ Range(ret.consulted) \subseteq ret.at_start
         /\ (ret.val = NoPluginAvailable /\ ret.caught = "")
               => Range(ret.consulted) = ret.at_start
    ELSE TRUE

\* C24: process_command never writes the registry: in each of its steps, to
\* a suspension, to the return of a unit's Response, of the no-match
\* Response or of an error Response, or out of the call when it is cancelled
\* at a suspension point, units, the active set and the is_active flag of
\* every unit stay as they are.
C24_DispatchWritesNothing ==
    [][(dp' # dp \/ ret'.op \in {"process_command", "cancelled"})
          => RegistryUnchanged]_vars

\* C24 case: a process_command has been cancelled while it was suspended in
\* a unit, with units stored and active.
C24_Witness ==
    /\ ret.op = "cancelled"
    /\ active_plugins # {}
    /\ \E p \in values(plugins) : is_active(p)

\* The names of the units a step of process_command newly consulted.
NewlyConsulted ==
    LET before == IF dp.pc = "idle" THEN <<>> ELSE dp.consulted
        after == IF dp'.pc # "idle" THEN dp'.consulted
                 ELSE IF ret'.op = "process_command" THEN ret'.consulted
                 ELSE before
    IN  {after[i] : i \in (DOMAIN after) \ (DOMAIN before)}

JustShutDown ==
    IF ret.op = "shutdown"
    THEN {getitem(plugins, n) : n \in Range(ret.called) \cap keys(plugins)}
    ELSE IF ret.op = "unload_plugin"
    THEN ({ret.plugin} \ {NoObject}) \cap values(plugins)
    ELSE {}

\* The units whose process_command or shutdown() the manager call that
\* returns in this step invoked.
InvokedInStep ==
    IF ret'.op = "process_command"
    THEN IF ret'.invoked = <<>> THEN {}
         ELSE IF dp.pc # "idle" THEN {dp.plugin}
         ELSE {getitem(plugins, ret'.invoked[1])}
    ELSE IF ret'.op = "shutdown" /\ sd.pc = "idle"
    THEN {getitem(plugins, n) : n \in Range(ret'.called)}
    ELSE IF ret'.op = "shutdown"
    THEN {sd.plugin}
    ELSE IF ret'.op = "unload_plugin"
    THEN {ret'.plugin} \ {NoObject}
    ELSE {}

\* C26: once a unit's shutdown() has run, through unload_plugin or through
\* PluginManager.shutdown, the manager does not call that unit's
\* process_command afterwards, and it does not invoke that unit's shutdown()
\* a second time: the call that returns next invokes neither on a unit whose
\* shutdown() the call that returned before it invoked.
C26_ShutDownIsTerminal ==
    [][JustShutDown \cap InvokedInStep = {}]_vars

\* C27: when load_plugin succeeds for an identity that is in the active set,
\* the identity stays in the active set and the entry of units under it is
\* the instance this call constructed, not the one it replaced; and the
\* instance a dispatch pass takes up for an identity it selects is the one
\* units holds under that identity at that step, so a later pass works with
\* the new instance.
C27_ReloadOfActiveUnit ==
    [][/\ IF ret'.op = "load_plugin" /\ ret'.val = TRUE /\ ret'.arg \in active_plugins
          THEN /\ ret'.arg \in active_plugins'
               /\ getitem(plugins', ret'.arg) = ret'.plugin
               /\ ret'.plugin \notin values(plugins)
               /\ values(plugins') \cap ret'.replaced = {}
          ELSE TRUE
       /\ IF dp'.pc = "validate_command" /\ NewlyConsulted # {}
          THEN dp'.plugin = getitem(plugins, hashOrder[dp'.pos])
          ELSE TRUE]_vars

\* C27 case: a load_plugin for an identity in the active set has returned
\* True and replaced the instance stored before.
C27_Witness ==
    /\ ret.op = "load_plugin"
    /\ ret.val = TRUE
    /\ ret.replaced # {}
    /\ ret.arg \in active_plugins
    /\ getitem(plugins, ret.arg) = ret.plugin

\* C28: when load_plugin, unload_plugin, activate_plugin or
\* deactivate_plugin returns False, the call has changed nothing: units, the
\* active set and the is_active flag of every stored unit are as before it.
C28_FalseChangesNothing ==
    [][IF ret'.op \in {"load_plugin", "unload_plugin", "activate_plugin",
                       "deactivate_plugin"}
       THEN ret'.val = FALSE =>
               /\ plugins' = plugins
               /\ active_plugins' = active_plugins
               /\ \A p \in values(plugins) : instances'[p] = instances[p]
       ELSE TRUE]_vars

\* C29: activate_plugin is idempotent: an activate_plugin that follows an
\* activate_plugin of the same identity that returned True returns True too
\* and leaves units, the active set and the flags of the units as the first
\* call left them; a get_active_plugins that follows holds the identity
\* once.
C29_ActivateIsIdempotent ==
    [][IF ret.op = "activate_plugin"
       THEN ret.val = TRUE =>
               /\ (ret'.op = "activate_plugin" /\ ret'.arg = ret.arg) =>
                     /\ ret'.val = TRUE
                     /\ RegistryUnchanged
                     /\ ret.arg \in active_plugins'
                     /\ is_active(getitem(plugins, ret.arg))'
               /\ ret'.op = "get_active_plugins" => Count(ret'.val, ret.arg) = 1
       ELSE TRUE]_vars

\* C29 case: activate_plugin has returned True for a loaded identity that is
\* in the active set beside another one, with the unit's flag set; a second
\* activate_plugin of the identity starts from this state and ends in it.
C29_Witness ==
    /\ ret.op = "activate_plugin" /\ ret.val = TRUE
    /\ ret.arg \in active_plugins
    /\ is_active(getitem(plugins, ret.arg))
    /\ Cardinality(active_plugins) > 1

\* The unit objects whose initialize() the manager calls in this step.
InitializeCalled ==
    IF ld.pc = "idle" /\ ld'.pc = "initialize" THEN {ld'.plugin}
    ELSE IF ld.pc = "idle" /\ ret'.op = "load_plugin" THEN {ret'.plugin} \ {NoObject}
    ELSE {}

\* C30: each load_plugin constructs a fresh unit object and calls
\* initialize() on it, once: the object did not exist before the call, so it
\* is not a stored unit and was not initialized before; while its
\* initialize() runs it is not stored; and an object enters units only in the
\* step in which the load_plugin that constructed it returns after its
\* initialize() returned True.
C30_InitializedOnceThenStored ==
    [][/\ InitializeCalled \cap (DOMAIN instances \cup values(plugins)) = {}
       /\ Cardinality(InitializeCalled) <= 1
       /\ ld'.pc = "initialize" => ld'.plugin \notin values(plugins')
       /\ (ld.pc = "initialize" /\ ld'.pc = "initialize") => ld'.plugin = ld.plugin
       /\ values(plugins') \ values(plugins) \subseteq
             (IF ret'.op = "load_plugin"
              THEN IF ret'.outcome = "True" THEN {ret'.plugin} ELSE {}
              ELSE {})]_vars

\* C30 case: a load_plugin whose initialize() suspended has returned True
\* and stored the unit it constructed in place of another instance of the
\* class.
C30_Witness ==
    /\ ret.op = "load_plugin"
    /\ ret.outcome = "True"
    /\ Awaits(ret.arg)
    /\ ret.replaced # {}
    /\ ret.plugin \in values(plugins)

====
